---- MODULE Spec2Model ----
(***************************************************************************)
(* Model of the AI-enhanced recommendation service: the provider clients   *)
(* of app/ai_client.py and the engine of app/ai_recommender.py.            *)
(*                                                                         *)
(* Numbers are fixed-point: similarity scores, AI relevance scores and the *)
(* two weights are in tenths (9 is 0.9), combined scores in hundredths     *)
(* (66 is 0.66).  Texts are abstract documents: what json.loads makes of   *)
(* them and which vocabulary terms they contain.                           *)
(***************************************************************************)
EXTENDS Integers, Sequences, FiniteSets, TLC

\* ------------------------------------------------------------------ bounds
MaxProducts == 4
MaxRequested == 2
MaxClose == 3
MaxBatch == 2
MaxItems == 3
MaxThreshold == 2
MaxRecovery == 2
MaxClock == 6
NumCallers == 2
MaxRetries == 3
MaxRecorded == 3
MaxLimit == 2

\* ---------------------------------------------------------------- helpers
Min(a, b) == IF a < b THEN a ELSE b

Reverse(s) == [i \in 1..Len(s) |-> s[Len(s) + 1 - i]]

\* s[-k:] of Python for k >= 1: the last k elements, all of s when k > len(s)
LastK(s, k) == IF k >= Len(s) THEN s ELSE SubSeq(s, Len(s) - k + 1, Len(s))

\* s[:k] of Python for k >= 0
FirstK(s, k) == IF k >= Len(s) THEN s ELSE SubSeq(s, 1, k)

\* the injective sequences of length k over the set S
InjSeqs(S, k) == {s \in [1..k -> S] : \A i, j \in 1..k : i # j => s[i] # s[j]}

\* ------------------------------------------------------------------ texts
\* A text is what a provider returns as content.  json is what json.loads
\* makes of it: "empty" is the empty string and "prose" any other text that
\* is not JSON (both raise JSONDecodeError), "object", "scalar" (a bare
\* number) and "array" are decoded values.  elems are the elements of an
\* array, terms the vocabulary terms the text carries (for an object: the
\* terms of its enhanced_description and key_features).
Text(j, e, t) == [json |-> j, elems |-> e, terms |-> t]

EmptyText == Text("empty", <<>>, {})

ProseText(t) == Text("prose", <<>>, t)

ObjectText(t) == Text("object", <<>>, t)

ScalarText == Text("scalar", <<>>, {})

ArrayText(e) == Text("array", e, {})

\* bool(text) of Python: only the empty string is falsy
Truthy(text) == text.json # "empty"

\* An array element: a number (v in tenths), a string that float() parses
\* ("numstr"), a string that float() rejects ("str"), or null.
Elem(t, v) == [t |-> t, v |-> v]

\* ---------------------------------------------------------------- results
\* original_data is the number of the product text that was sent (0 for
\* the empty string and for the prompts of a request).
AnalysisResult(orig, text, conf, tokens) ==
  [original_data |-> orig, processed_data |-> text,
   confidence_score |-> conf, tokens_used |-> tokens]

\* the dummy result of a failed sub-batch
Placeholder == AnalysisResult(0, EmptyText, 0, 0)

NoResult == AnalysisResult(0, EmptyText, 0, 0)

Ok(res) == [ok |-> TRUE, exc |-> "none", res |-> res]

Raise(e) == [ok |-> FALSE, exc |-> e, res |-> NoResult]

AIClientErrors == {"AIClientError", "AIRateLimitError", "AIQuotaExceededError"}

\* isinstance(e, AIClientError)
IsAIClientError(e) == e \in AIClientErrors

\* -------------------------------------------------------- provider clients
Providers == {"openai", "anthropic", "ollama", "custom"}

\* What the HTTP layer does with one request: kind "http" is a response with
\* a status and a body ("ok" holds the expected content field, "nofield" is
\* a JSON object without it, "notjson" is not JSON); "timeout" and
\* "transport" are httpx failures without a response.
HttpResp(k, s, b, text, tok) ==
  [kind |-> k, status |-> s, body |-> b, text |-> text, tokens |-> tok]

HttpOk(text) == HttpResp("http", 200, "ok", text, 1)

HttpStatus(s) == HttpResp("http", s, "ok", EmptyText, 0)

HttpBody(b) == HttpResp("http", 200, b, EmptyText, 0)

HttpTimeout == HttpResp("timeout", 0, "ok", EmptyText, 0)

HttpTransport == HttpResp("transport", 0, "ok", EmptyText, 0)

\* no request is sent
NoHttp == HttpResp("none", 0, "ok", EmptyText, 0)

ConfidenceOf(provider) == IF provider \in {"openai", "anthropic"} THEN 8 ELSE 7

\* a classification that knows no rate-limit error
StatusErrorWithoutRateLimit(provider, status) ==
  IF provider \in {"openai", "anthropic"} /\ status = 402
    THEN "AIQuotaExceededError" ELSE "AIClientError"

StatusError(provider, status) ==
  IF provider \in {"openai", "anthropic"}
    THEN IF status = 429 THEN "AIRateLimitError"
         ELSE IF status = 402 THEN "AIQuotaExceededError"
         ELSE "AIClientError"
    ELSE "AIClientError"

\* process_data: post, raise_for_status, decode, build the result.  Only
\* httpx.HTTPStatusError is caught and translated.
ProcessData(provider, data, resp) ==
  IF resp.kind = "timeout" THEN Raise("TimeoutException")
  ELSE IF resp.kind = "transport" THEN Raise("ConnectError")
  ELSE IF resp.status # 200 THEN Raise(StatusError(provider, resp.status))
  ELSE IF resp.body = "notjson" THEN Raise("JSONDecodeError")
  ELSE IF resp.body = "nofield"
    THEN IF provider = "custom"
           THEN Ok(AnalysisResult(data, ProseText({}), ConfidenceOf(provider), 0))
           ELSE Raise("KeyError")
  ELSE Ok(AnalysisResult(data, resp.text, ConfidenceOf(provider), resp.tokens))

\* batch_process: one process_data per item, in order; the first error ends
\* the loop and propagates.  resps[i] is the HTTP outcome of item i's request
\* (those after a failing item are never issued).
RECURSIVE BatchLoop(_, _, _, _, _)
BatchLoop(provider, data_list, resps, i, results) ==
  IF i > Len(data_list) THEN [ok |-> TRUE, exc |-> "none", results |-> results, issued |-> i - 1]
  ELSE LET r == ProcessData(provider, data_list[i], resps[i])
       IN IF r.ok
            THEN BatchLoop(provider, data_list, resps, i + 1, Append(results, r.res))
            ELSE [ok |-> FALSE, exc |-> r.exc, results |-> <<>>, issued |-> i]

BatchProcess(provider, data_list, resps) == BatchLoop(provider, data_list, resps, 1, <<>>)

\* the values of the enumeration AIProvider, which a validated AIModelConfig
\* holds, and a value outside it
ProviderValues == {"openai", "anthropic", "cohere", "huggingface", "ollama", "custom"}

Unsupported == "unsupported"

\* BaseAIClient.__init__ of the class: the object with its HTTP connection
\* pool; nothing is sent
Construct(class, provider) ==
  [kind |-> class, provider |-> provider, exc |-> "none", constructed |-> TRUE]

\* create_ai_client(config)
CreateAiClient(provider) ==
  IF provider = "openai" THEN Construct("OpenAIClient", provider)
  ELSE IF provider = "anthropic" THEN Construct("AnthropicClient", provider)
  ELSE IF provider = "ollama" THEN Construct("OllamaClient", provider)
  ELSE IF provider = "custom" THEN Construct("CustomAPIClient", provider)
  ELSE [kind |-> "None", provider |-> provider, exc |-> "ValueError",
        constructed |-> FALSE]

\* A prompt or a piece of user content: "none" is None or the empty string,
\* "raw" the data item itself, "templated" a template with the item put in
\* its placeholder, "fixed" a text that does not hold the item.
Prompt(form, item) == [form |-> form, item |-> item]

NoPrompt == Prompt("none", 0)

\* the data item d as a string: item 0 is the empty string
Raw(d) == IF d = 0 THEN NoPrompt ELSE Prompt("raw", d)

\* user_prompt or data
UserContent(data, user_prompt) == IF user_prompt.form # "none" THEN user_prompt ELSE Raw(data)

\* The user_prompt of one batch item (lines 126-128).  A template is None
\* ("none"), the empty string ("empty"), a text with the placeholder {data}
\* ("placeholder"), a text without a placeholder ("fixed"), or a text with
\* another placeholder ("malformed"), on which str.format raises KeyError.
Templates == {"none", "empty", "placeholder", "fixed", "malformed"}

FormatTemplate(template, data) ==
  IF template \in {"none", "empty"} THEN [exc |-> "none", prompt |-> NoPrompt]
  ELSE IF template = "placeholder" THEN [exc |-> "none", prompt |-> Prompt("templated", data)]
  ELSE IF template = "fixed" THEN [exc |-> "none", prompt |-> Prompt("fixed", 0)]
  ELSE [exc |-> "KeyError", prompt |-> NoPrompt]

\* a delay after every item, whatever the provider
PacingDelayUniform(provider) == 1

\* the asyncio.sleep that follows each item of a batch, in tenths of a
\* second: 0.1 for OpenAIClient, 0.2 for AnthropicClient, none for the others
PacingDelay(provider) ==
  IF provider = "openai" THEN 1 ELSE IF provider = "anthropic" THEN 2 ELSE 0

\* an event of a batch_process call: a request is posted for an item
\* ("post"), its process_data call returns ("done") or raises ("fail"), the
\* delay after it has passed ("sleep")
Event(ev, item, content, delay) ==
  [ev |-> ev, item |-> item, content |-> content, delay |-> delay]

\* a batch that puts each new result in front of the earlier ones
BatchAfterItemPrepending(provider, b, r) ==
  IF r.ok
    THEN [b EXCEPT !.results = <<r.res>> \o @,
                   !.phase = IF PacingDelay(provider) > 0 THEN "sleep" ELSE "loop",
                   !.i = IF PacingDelay(provider) > 0 THEN @ ELSE @ + 1,
                   !.inflight = @ - 1,
                   !.log = Append(@, Event("done", b.i, NoPrompt, 0))]
    ELSE [b EXCEPT !.phase = "raised", !.exc = r.exc,
                   !.inflight = @ - 1,
                   !.log = Append(@, Event("fail", b.i, NoPrompt, 0))]

\* a batch that passes over a failing item and goes on with the next
BatchAfterItemSkipping(provider, b, r) ==
  LET pace == r.ok /\ PacingDelay(provider) > 0
  IN [b EXCEPT !.results = IF r.ok THEN Append(@, r.res) ELSE @,
               !.phase = IF pace THEN "sleep" ELSE "loop",
               !.i = IF pace THEN @ ELSE @ + 1,
               !.inflight = @ - 1,
               !.log = Append(@, Event(IF r.ok THEN "done" ELSE "fail", b.i, NoPrompt, 0))]

\* the batch_process call b after the process_data call of item b.i ended
\* as r: the result is appended and the delay, if any, starts; an exception
\* leaves the loop and the method
BatchAfterItem(provider, b, r) ==
  IF r.ok
    THEN [b EXCEPT !.results = Append(@, r.res),
                   !.phase = IF PacingDelay(provider) > 0 THEN "sleep" ELSE "loop",
                   !.i = IF PacingDelay(provider) > 0 THEN @ ELSE @ + 1,
                   !.inflight = @ - 1,
                   !.log = Append(@, Event("done", b.i, NoPrompt, 0))]
    ELSE [b EXCEPT !.phase = "raised", !.exc = r.exc,
                   !.inflight = @ - 1,
                   !.log = Append(@, Event("fail", b.i, NoPrompt, 0))]

\* ------------------------------------------------------------------ engine
\* RecommendationConfig: ai_processing.enabled, the provider of its model
\* configuration, ai_processing.batch_size and the two weights (tenths).
Config(en, p, bs, ws, wa) ==
  [enabled |-> en, provider |-> p, batch_size |-> bs,
   content_similarity_weight |-> ws, ai_enhancement_weight |-> wa]

\* the configurations of tests/conftest.py and config_template.py
TestConfig == Config(TRUE, "openai", 2, 6, 4)

DisabledConfig == Config(FALSE, "openai", 1, 10, 0)

ServeConfigs == {TestConfig, DisabledConfig}

InitConfigs ==
  {Config(en, p, bs, 6, 4) : en \in BOOLEAN, p \in Providers, bs \in 1..MaxBatch}

\* a product table: one row per product, each with the terms of its text
Datasets == UNION {[1..n -> {{"a"}, {"b"}}] : n \in 1..MaxProducts}

NoTable == [loaded |-> FALSE, rows |-> <<>>, ai_analysis |-> <<>>]

NoArtifact == [present |-> FALSE, features |-> <<>>]

\* ------------------------------------------------------- client-side state
\* no client has been made, no process_data call and no batch_process call
\* is running
NoClient == [kind |-> "None", provider |-> "none", exc |-> "none", constructed |-> FALSE]

NoCall == [op |-> "none", data |-> 0, content |-> NoPrompt, resp |-> NoHttp,
           ok |-> FALSE, exc |-> "none", res |-> NoResult]

NoBatch ==
  [phase |-> "idle", data_list |-> <<>>, template |-> "none", i |-> 0,
   results |-> <<>>, exc |-> "none", inflight |-> 0, log |-> <<>>]

\* --------------------------------------------------- circuit breaker state
NoTime == -1

\* CircuitBreaker.__init__
CircuitBreaker(failure_threshold, recovery_timeout) ==
  [failure_threshold |-> failure_threshold, recovery_timeout |-> recovery_timeout,
   failure_count |-> 0, last_failure_time |-> NoTime, state |-> "CLOSED"]

\* is_available(): the answer and the breaker after it, at time t
IsAvailable(b, t) ==
  IF b.state = "CLOSED" THEN [answer |-> TRUE, breaker |-> b]
  ELSE IF b.state = "OPEN"
    THEN IF t - b.last_failure_time > b.recovery_timeout
           THEN [answer |-> TRUE, breaker |-> [b EXCEPT !.state = "HALF_OPEN"]]
           ELSE [answer |-> FALSE, breaker |-> b]
  ELSE [answer |-> TRUE, breaker |-> b]

\* record_success()
RecordSuccess(b) == [b EXCEPT !.failure_count = 0, !.state = "CLOSED"]

\* a breaker that opens only on the failure that reaches the threshold
RecordFailureAtThreshold(b, t) ==
  [b EXCEPT !.failure_count = @ + 1,
            !.last_failure_time = t,
            !.state = IF b.failure_count + 1 = b.failure_threshold THEN "OPEN" ELSE @]

\* record_failure() at time t
RecordFailure(b, t) ==
  [b EXCEPT !.failure_count = @ + 1,
            !.last_failure_time = t,
            !.state = IF b.failure_count + 1 >= b.failure_threshold THEN "OPEN" ELSE @]

\* What has been observed of a breaker: the failures recorded since the last
\* recorded success (failures) and the time of the last of them (failed_at);
\* whether failure_threshold failures in a row have been recorded and the
\* recovery timeout after the last failure has not been seen to pass
\* (tripped); the answer of the last availability check since the last
\* recorded failure (checked); and the checks answered True since the
\* breaker became HALF_OPEN with no outcome recorded since, counted up to
\* two (admitted); the last operation on the breaker (last: "check",
\* "success" or "failure") and the state it found the breaker in (from).
NoHistory ==
  [failures |-> 0, failed_at |-> NoTime, tripped |-> FALSE, checked |-> "none",
   admitted |-> 0, last |-> "none", from |-> "none"]

\* the recovery timeout after the last recorded failure has passed at time t
Recovered(b, h, t) == h.failed_at # NoTime /\ t - h.failed_at > b.recovery_timeout

\* the history after an operation at time t, before the operation is noted
Aged(b, h, t) == IF Recovered(b, h, t) THEN [h EXCEPT !.tripped = FALSE] ELSE h

\* the history after an availability check at time t that left the breaker
\* as after and gave the answer
Checked(b, h, t, after, answer) ==
  [Aged(b, h, t) EXCEPT
     !.checked = IF answer THEN "yes" ELSE "no",
     !.admitted = IF answer /\ after.state = "HALF_OPEN" THEN Min(@ + 1, 2) ELSE @,
     !.last = "check",
     !.from = b.state]

\* the history after a success was recorded at time t
Succeeded(b, h, t) ==
  [Aged(b, h, t) EXCEPT !.failures = 0, !.admitted = 0, !.last = "success",
                        !.from = b.state]

\* the history after a failure was recorded at time t
Failed(b, h, t) ==
  [Aged(b, h, t) EXCEPT
     !.failures = @ + 1,
     !.failed_at = t,
     !.tripped = @ \/ h.failures + 1 >= b.failure_threshold,
     !.checked = "none",
     !.admitted = 0,
     !.last = "failure",
     !.from = b.state]

\* ------------------------------------------------------ retry handler state
\* RetryHandler.__init__: delays are in tenths of a second
RetryHandler(max_retries, base_delay, max_delay, backoff_factor) ==
  [max_retries |-> max_retries, base_delay |-> base_delay, max_delay |-> max_delay,
   backoff_factor |-> backoff_factor]

\* default_retry_handler
DefaultRetryHandler == RetryHandler(3, 10, 600, 2)

RECURSIVE Pow(_, _)
Pow(b, e) == IF e = 0 THEN 1 ELSE b * Pow(b, e - 1)

\* min(base_delay * backoff_factor ** attempt, max_delay)
BackoffDelay(h, attempt) == Min(h.base_delay * Pow(h.backoff_factor, attempt), h.max_delay)

\* random.uniform(0, delay * 0.1): the least and the greatest jitter
Jitters(delay) == {0, delay \div 10}

\* An execute_with_retry call: where it is (phase), the loop variable
\* attempt, the outcome of each invocation of the operation so far, the
\* delays slept so far, the delay being slept, last_exception, and what the
\* call returned (the number of the invocation whose result it is) or raised.
NoRetry ==
  [phase |-> "idle", attempt |-> 0, outcomes |-> <<>>, sleeps |-> <<>>, delay |-> 0,
   last_exception |-> "none", result |-> 0, exc |-> "none"]

\* a loop that sleeps after every failure, the last one too
AfterInvocationAlwaysSleeping(h, r, outcome, jitter) ==
  LET seen == [r EXCEPT !.outcomes = Append(@, outcome)]
  IN IF outcome = "ok"
       THEN [seen EXCEPT !.phase = "returned", !.result = Len(seen.outcomes)]
     ELSE [seen EXCEPT !.last_exception = outcome, !.phase = "sleep",
                       !.delay = BackoffDelay(h, r.attempt) + jitter]

\* lines 286-303: the call r after an invocation of the operation ended as
\* outcome ("ok" or the exception it raised)
AfterInvocation(h, r, outcome, jitter) ==
  LET seen == [r EXCEPT !.outcomes = Append(@, outcome)]
  IN IF outcome = "ok"
       THEN [seen EXCEPT !.phase = "returned", !.result = Len(seen.outcomes)]
     ELSE IF r.attempt = h.max_retries
       THEN [seen EXCEPT !.last_exception = outcome, !.phase = "raised", !.exc = outcome]
     ELSE [seen EXCEPT !.last_exception = outcome, !.phase = "sleep",
                       !.delay = BackoffDelay(h, r.attempt) + jitter]

\* lines 305-308 and 285: the sleep ends and the loop goes on with the next
\* attempt, or ends and last_exception is raised
AfterSleep(h, r) ==
  LET slept == [r EXCEPT !.sleeps = Append(@, r.delay), !.delay = 0, !.attempt = @ + 1]
  IN IF r.attempt + 1 > h.max_retries
       THEN [slept EXCEPT !.phase = "raised", !.exc = r.last_exception]
       ELSE [slept EXCEPT !.phase = "call"]

\* ------------------------------------------------------- rate limiter state
\* the client addresses, and the identifiers check_rate_limits builds of them
Ips == {"a", "b"}

Identifier(ip, window) == <<ip, window>>

Identifiers == {Identifier(ip, w) : ip \in Ips, w \in {"minute", "hour"}}

\* RateLimiter.__init__: no timestamps and no block for any identifier (an
\* absent key of requests is the empty list, of blocked_until is NoTime)
RateLimiter ==
  [requests |-> [id \in Identifiers |-> <<>>],
   blocked_until |-> [id \in Identifiers |-> NoTime]]

\* SECURITY_CONFIG, the part check_rate_limits reads
SecurityConfig(enabled, per_minute, per_hour) ==
  [rate_limit_enabled |-> enabled, max_requests_per_minute |-> per_minute,
   max_requests_per_hour |-> per_hour]

DefaultSecurity == SecurityConfig(TRUE, 60, 1000)

\* the 60 s and 3600 s windows of check_rate_limits, in clock ticks of the
\* model (a scaled clock: the hour window is the longer one)
MinuteWindow == 2
HourWindow == 4

\* _clean_old_requests: the timestamps newer than the cutoff
CleanOldRequests(l, id, window_seconds, t) ==
  [l EXCEPT !.requests[id] = SelectSeq(@, LAMBDA ts : ts > t - window_seconds)]

\* a limiter that starts the block as soon as the count reaches 1.5 times
\* the limit
IsRateLimitedBlockingEarly(l, id, max_requests, window_seconds, t) ==
  LET blocked == l.blocked_until[id] # NoTime
      unblocked == IF blocked THEN [l EXCEPT !.blocked_until[id] = NoTime] ELSE l
      cleaned == CleanOldRequests(unblocked, id, window_seconds, t)
      request_count == Len(cleaned.requests[id])
  IN IF blocked /\ t < l.blocked_until[id]
       THEN [limited |-> TRUE, reason |-> "temporarily_blocked", limiter |-> l]
     ELSE IF request_count >= max_requests
       THEN [limited |-> TRUE, reason |-> "over_limit",
             limiter |-> IF 2 * request_count >= 3 * max_requests
                           THEN [cleaned EXCEPT
                                   !.blocked_until[id] = t + window_seconds * 2]
                           ELSE cleaned]
     ELSE [limited |-> FALSE, reason |-> "none", limiter |-> cleaned]

\* is_rate_limited at time t: the answer and the limiter afterwards
\* (request_count > max_requests * 1.5 is 2 * request_count > 3 * max_requests)
IsRateLimited(l, id, max_requests, window_seconds, t) ==
  LET blocked == l.blocked_until[id] # NoTime
      unblocked == IF blocked THEN [l EXCEPT !.blocked_until[id] = NoTime] ELSE l
      cleaned == CleanOldRequests(unblocked, id, window_seconds, t)
      request_count == Len(cleaned.requests[id])
  IN IF blocked /\ t < l.blocked_until[id]
       THEN [limited |-> TRUE, reason |-> "temporarily_blocked", limiter |-> l]
     ELSE IF request_count >= max_requests
       THEN [limited |-> TRUE, reason |-> "over_limit",
             limiter |-> IF 2 * request_count > 3 * max_requests
                           THEN [cleaned EXCEPT
                                   !.blocked_until[id] = t + window_seconds * 2]
                           ELSE cleaned]
     ELSE [limited |-> FALSE, reason |-> "none", limiter |-> cleaned]

\* record_request at time t
RecordRequest(l, id, t) == [l EXCEPT !.requests[id] = Append(@, t)]

\* a gate that records the request before it rejects it
CheckRateLimitsRecordingFirst(sec, l, ip, t) ==
  LET minute == IsRateLimited(l, Identifier(ip, "minute"),
                              sec.max_requests_per_minute, MinuteWindow, t)
      hour == IsRateLimited(minute.limiter, Identifier(ip, "hour"),
                            sec.max_requests_per_hour, HourWindow, t)
      recorded == RecordRequest(RecordRequest(hour.limiter, Identifier(ip, "minute"), t),
                                Identifier(ip, "hour"), t)
  IN IF ~sec.rate_limit_enabled
       THEN [rejected |-> FALSE, limiter |-> l]
     ELSE [rejected |-> minute.limited \/ hour.limited, limiter |-> recorded]

\* check_rate_limits for a request of address ip at time t: whether it is
\* rejected (HTTP 429) and the limiter afterwards
CheckRateLimits(sec, l, ip, t) ==
  LET minute == IsRateLimited(l, Identifier(ip, "minute"),
                              sec.max_requests_per_minute, MinuteWindow, t)
      hour == IsRateLimited(minute.limiter, Identifier(ip, "hour"),
                            sec.max_requests_per_hour, HourWindow, t)
      recorded == RecordRequest(RecordRequest(hour.limiter, Identifier(ip, "minute"), t),
                                Identifier(ip, "hour"), t)
  IN IF ~sec.rate_limit_enabled
       THEN [rejected |-> FALSE, limiter |-> l]
     ELSE IF minute.limited \/ hour.limited
       THEN [rejected |-> TRUE, limiter |-> hour.limiter]
     ELSE [rejected |-> FALSE, limiter |-> recorded]

\* the last call made on the limiter: its arguments, its time and its answer
NoVerdict ==
  [op |-> "none", id |-> <<>>, max_requests |-> 0, window_seconds |-> 0,
   at |-> NoTime, limited |-> FALSE]

VARIABLES
  config,            \* self.config
  ai_client,         \* self.ai_client: "None" or "client"
  products_df,       \* self.products_df: loaded, rows, the ai_analysis column
  tfidf_vectorizer,  \* self.tfidf_vectorizer is fitted
  product_features,  \* self.product_features: the terms of each product
  cache,             \* self.cache
  artifact,          \* ml_models/ai_enhanced_model.pkl: the saved bundle
  closed,            \* number of calls of close
  released,          \* number of calls of ai_client.close
  out,               \* outcome of the operation last run, until delivered
  client,            \* what create_ai_client last did
  call,              \* the process_data call last made on the client
  batch_run,         \* the batch_process call in progress on the client
  breaker,           \* a CircuitBreaker object
  now,               \* time.time()
  callers,           \* the position of each caller of a wrapped function
  hist,              \* what has been observed of the breaker
  handler,           \* a RetryHandler object
  retry,             \* the execute_with_retry call in progress on it
  security,          \* SECURITY_CONFIG
  limiter,           \* rate_limiter
  verdict            \* the last call on the limiter and its answer

vars == <<config, ai_client, products_df, tfidf_vectorizer, product_features,
          cache, artifact, closed, released, out, client, call, batch_run,
          breaker, now, callers, hist, handler, retry, security, limiter, verdict>>

retryVars == <<handler, retry>>

limiterVars == <<security, limiter, verdict>>

clientVars == <<client, call, batch_run>>

breakerVars == <<breaker, now, callers, hist>>

serviceVars == <<config, ai_client, products_df, tfidf_vectorizer, product_features,
                 cache, artifact, closed, released, out>>

engine == <<config, ai_client, products_df, tfidf_vectorizer, product_features,
            cache, artifact>>

\* AIEnhancedRecommendationRequest: an absent (or empty) preference or
\* context is the empty text.
Request(n, prefs, ctx, optin) ==
  [num_recommendations |-> n, user_preferences |-> prefs, context |-> ctx,
   ai_processing_enabled |-> optin]

NoRequest == Request(0, EmptyText, EmptyText, FALSE)

\* The trace of one get_recommendations call (or one direct call of
\* _ai_score_recommendations): the request, the profile, the list that
\* _get_content_recommendations returned, the provider's answer to the
\* scoring call and the list _ai_score_recommendations returned.
Trace(req, profile, content, sresp, scored) ==
  [req |-> req, profile |-> profile, content |-> content, sresp |-> sresp,
   scored |-> scored]

NoTrace == Trace(NoRequest, EmptyText, <<>>, NoHttp, <<>>)

\* The outcome of an operation: whether it raised and what, the response of
\* get_recommendations, the AI client calls it made, in order, and its trace;
\* for initialize, what the provider did with the request of each product
\* (enhance, empty when no enhancement ran).
Outcome(op, exc, recs, used, expl, calls, trace) ==
  [op |-> op, raised |-> exc # "none", exc |-> exc, recommendations |-> recs,
   ai_processing_used |-> used, has_explanation |-> expl, calls |-> calls,
   trace |-> trace, enhance |-> <<>>, fitted |-> FALSE, explained |-> <<>>]

Idle == Outcome("none", "none", <<>>, FALSE, FALSE, <<>>, NoTrace)

Returned(op, calls) == Outcome(op, "none", <<>>, FALSE, FALSE, calls, NoTrace)

Raised(op, exc, calls) == Outcome(op, exc, <<>>, FALSE, FALSE, calls, NoTrace)

RaisedIn(op, exc, calls, trace) == Outcome(op, exc, <<>>, FALSE, FALSE, calls, trace)

\* no client operation has run
NewClient == client = NoClient /\ call = NoCall /\ batch_run = NoBatch

\* a breaker b at time 0 with n callers of the function it guards
NewBreaker(b, n) ==
  /\ breaker = b
  /\ now = 0
  /\ callers = [c \in 1..n |-> "idle"]
  /\ hist = NoHistory

\* a retry handler h on which no call runs
NewRetry(h) == handler = h /\ retry = NoRetry

\* rate_limiter = RateLimiter() under the configuration sec
NewLimiter(sec) == security = sec /\ limiter = RateLimiter /\ verdict = NoVerdict

\* what is not the engine, as the application module sets it up
NewRest ==
  /\ NewClient
  /\ NewBreaker(CircuitBreaker(5, 60), 0)
  /\ NewRetry(DefaultRetryHandler)
  /\ NewLimiter(DefaultSecurity)

\* __init__: the client exists exactly when AI processing is enabled
New(cfg) ==
  /\ config = cfg
  /\ ai_client = IF cfg.enabled THEN "client" ELSE "None"
  /\ products_df = NoTable
  /\ tfidf_vectorizer = FALSE
  /\ product_features = <<>>
  /\ cache = {}
  /\ artifact = NoArtifact
  /\ closed = 0
  /\ released = 0
  /\ out = Idle
  /\ NewRest

Init == \E cfg \in ServeConfigs : New(cfg)

InitAny == \E cfg \in InitConfigs : New(cfg)

\* _ai_enhance_products: the loop over the sub-batches.  texts[i] is the
\* text of product i, resps[i] the HTTP outcome of its request.  A sub-batch
\* that raises an AIClientError is replaced by placeholders; any other
\* exception leaves the loop and the method.
\* one dummy result for a failed sub-batch, whatever its size
PlaceholdersSingle(items) == <<Placeholder>>

\* the dummy results of a failed sub-batch: one for each of its items
Placeholders(items) == [k \in 1..Len(items) |-> Placeholder]

RECURSIVE EnhanceLoop(_, _, _, _, _, _)
EnhanceLoop(cfg, texts, resps, i, enhanced_data, calls) ==
  IF i > Len(texts) THEN [ok |-> TRUE, exc |-> "none", data |-> enhanced_data, calls |-> calls]
  ELSE LET hi == Min(i + cfg.batch_size - 1, Len(texts))
           batch == SubSeq(texts, i, hi)
           r == BatchProcess(cfg.provider, batch, SubSeq(resps, i, hi))
           log == Append(calls, "batch_process")
       IN IF r.ok
            THEN EnhanceLoop(cfg, texts, resps, i + cfg.batch_size,
                             enhanced_data \o r.results, log)
          ELSE IF IsAIClientError(r.exc)
            THEN EnhanceLoop(cfg, texts, resps, i + cfg.batch_size,
                             enhanced_data \o Placeholders(batch), log)
          ELSE [ok |-> FALSE, exc |-> r.exc, data |-> <<>>, calls |-> log]

AiEnhanceProducts(cfg, rows, resps) ==
  EnhanceLoop(cfg, [i \in 1..Len(rows) |-> i], resps, 1, <<>>, <<>>)

\* _train_content_model: the text features of each product.  The AI text is
\* decoded with json.loads: a JSONDecodeError is passed over, an object adds
\* its enhanced description and key features, and the membership test on a
\* bare number raises TypeError, which is not caught.
TrainRaises(analysis) ==
  \E i \in 1..Len(analysis) : analysis[i].processed_data.json = "scalar"

TextFeatures(rows, analysis) ==
  [i \in 1..Len(rows) |->
     rows[i] \cup (IF i <= Len(analysis) /\ analysis[i].processed_data.json = "object"
                     THEN analysis[i].processed_data.terms ELSE {})]

Bundle(features) == [present |-> TRUE, features |-> features]

\* initialize runs once, on a new engine, while no other operation runs
CanInitialize == out = Idle /\ ~products_df.loaded /\ closed = 0

\* initialize(data_path): read the table, enhance it when AI is enabled,
\* train and save.  dataset is the content of the file ("missing": no file).
InitializeWith(dataset, resps) ==
  /\ LET enh == IF config.enabled /\ ai_client # "None"
                  THEN AiEnhanceProducts(config, dataset, resps)
                  ELSE [ok |-> TRUE, exc |-> "none", data |-> <<>>, calls |-> <<>>]
         feats == TextFeatures(dataset, enh.data)
         seen == IF enh.calls # <<>> THEN resps ELSE <<>>
     IN IF ~enh.ok
          THEN /\ products_df' = [loaded |-> TRUE, rows |-> dataset, ai_analysis |-> <<>>]
               /\ out' = [Raised("initialize", enh.exc, enh.calls) EXCEPT !.enhance = seen]
               /\ UNCHANGED <<tfidf_vectorizer, product_features, artifact>>
        ELSE IF TrainRaises(enh.data)
          THEN /\ products_df' = [loaded |-> TRUE, rows |-> dataset, ai_analysis |-> enh.data]
               /\ out' = [Raised("initialize", "TypeError", enh.calls) EXCEPT !.enhance = seen]
               /\ UNCHANGED <<tfidf_vectorizer, product_features, artifact>>
        ELSE /\ products_df' = [loaded |-> TRUE, rows |-> dataset, ai_analysis |-> enh.data]
             /\ tfidf_vectorizer' = TRUE
             /\ product_features' = feats
             /\ artifact' = Bundle(feats)
             /\ out' = [Returned("initialize", enh.calls) EXCEPT !.enhance = seen,
                                                                !.fitted = TRUE]
  /\ UNCHANGED <<config, ai_client, cache, closed, released, clientVars, breakerVars, retryVars, limiterVars>>

\* read_csv on a path without a file
InitializeMissing ==
  /\ CanInitialize
  /\ out' = Raised("initialize", "FileNotFoundError", <<>>)
  /\ UNCHANGED <<engine, closed, released, clientVars, breakerVars, retryVars, limiterVars>>

\* what the provider answers to an analysis request
EnhanceResps ==
  {HttpOk(ObjectText({"b"})), HttpOk(ScalarText), HttpStatus(429), HttpTimeout}

\* the answers of a provider that is up, or down, for the whole start-up
ServeEnhanceResps == {HttpOk(ObjectText({"b"})), HttpTimeout}

\* initialize against a provider that answers every item alike
Initialize ==
  /\ CanInitialize
  /\ \E dataset \in Datasets, r \in ServeEnhanceResps :
       InitializeWith(dataset, [i \in 1..Len(dataset) |-> r])

\* initialize against a provider that answers each item on its own
InitializeAny ==
  /\ CanInitialize
  /\ \E dataset \in Datasets :
       \E resps \in [1..Len(dataset) -> EnhanceResps] : InitializeWith(dataset, resps)

\* ----------------------------------------------------------------- serving
Requests ==
  {Request(n, p, c, o) : n \in 1..MaxRequested,
                         p \in {EmptyText, ProseText({"a"})},
                         c \in {EmptyText, ProseText({"b"})},
                         o \in BOOLEAN}

\* _generate_user_profile: None (the empty text) without a call when the
\* request has neither preferences nor context; an AIClientError gives None.
\* a profile step that calls the provider for every request
GenerateUserProfileAlways(cfg, req, resp) ==
  LET r == ProcessData(cfg.provider, 0, resp)
  IN IF r.ok
       THEN [ok |-> TRUE, exc |-> "none", profile |-> r.res.processed_data,
             calls |-> <<"profile">>]
     ELSE IF IsAIClientError(r.exc)
       THEN [ok |-> TRUE, exc |-> "none", profile |-> EmptyText, calls |-> <<"profile">>]
     ELSE [ok |-> FALSE, exc |-> r.exc, profile |-> EmptyText, calls |-> <<"profile">>]

GenerateUserProfile(cfg, req, resp) ==
  IF ~Truthy(req.user_preferences) /\ ~Truthy(req.context)
    THEN [ok |-> TRUE, exc |-> "none", profile |-> EmptyText, calls |-> <<>>]
  ELSE LET r == ProcessData(cfg.provider, 0, resp)
       IN IF r.ok
            THEN [ok |-> TRUE, exc |-> "none", profile |-> r.res.processed_data,
                  calls |-> <<"profile">>]
          ELSE IF IsAIClientError(r.exc)
            THEN [ok |-> TRUE, exc |-> "none", profile |-> EmptyText, calls |-> <<"profile">>]
          ELSE [ok |-> FALSE, exc |-> r.exc, profile |-> EmptyText, calls |-> <<"profile">>]

\* EnhancedProduct as _get_content_recommendations builds it: the row it
\* was made from and the three scores, all 0.0
Candidate(row) ==
  [id |-> row, similarity_score |-> 0, ai_relevance_score |-> 0, combined_score |-> 0]

QueryTerms(req, profile) ==
  req.user_preferences.terms \cup req.context.terms \cup profile.terms

HasQuery(req, profile) ==
  Truthy(req.user_preferences) \/ Truthy(req.context) \/ Truthy(profile)

\* cosine_similarity of the TF-IDF vectors of two texts over their terms,
\* squared and in tenths (the order of the values is that of the cosine)
Cosine(q, f) ==
  IF q = {} \/ f = {} THEN 0
  ELSE (10 * Cardinality(q \cap f) * Cardinality(q \cap f))
         \div (Cardinality(q) * Cardinality(f))

Similarities(q, features) == [i \in 1..Len(features) |-> Cosine(q, features[i])]

\* numpy argsort (default kind, not stable): every order of the indices in
\* which the values ascend
ArgSorts(sims) ==
  {p \in InjSeqs(1..Len(sims), Len(sims)) :
     \A i \in 1..(Len(sims) - 1) : sims[p[i]] <= sims[p[i + 1]]}

\* the top indices without the final reversal
TopIndicesAscending(sims, n) == {LastK(p, 3 * n) : p \in ArgSorts(sims)}

\* similarities.argsort()[-num_recommendations * 3:][::-1]
TopIndices(sims, n) == {Reverse(LastK(p, 3 * n)) : p \in ArgSorts(sims)}

\* products_df.sample(min(num_recommendations * 3, len(products_df))):
\* rows drawn without replacement, in any order
SampleProducts(count, n) == InjSeqs(1..count, Min(3 * n, count))

\* _get_content_recommendations raises AttributeError on the None table
\* (no query) or the None vectorizer (query)
ContentRaises(req, profile) ==
  IF HasQuery(req, profile) THEN ~tfidf_vectorizer ELSE ~products_df.loaded

\* the candidate lists _get_content_recommendations can return
ContentRecommendations(req, profile) ==
  LET rows == IF HasQuery(req, profile)
                THEN TopIndices(Similarities(QueryTerms(req, profile), product_features),
                                req.num_recommendations)
                ELSE SampleProducts(Len(products_df.rows), req.num_recommendations)
  IN {[i \in 1..Len(r) |-> Candidate(r[i])] : r \in rows}

\* a fusion with the two weights exchanged
CombinedScoreSwapped(cfg, sim, ai) ==
  cfg.ai_enhancement_weight * sim + cfg.content_similarity_weight * ai

\* the weighted fusion of lines 320-323, in hundredths
CombinedScore(cfg, sim, ai) ==
  cfg.content_similarity_weight * sim + cfg.ai_enhancement_weight * ai

\* float(score): a number or a numeric string converts, any other string
\* raises ValueError, null raises TypeError
FloatOf(e) ==
  IF e.t \in {"num", "numstr"} THEN [exc |-> "none", v |-> e.v]
  ELSE IF e.t = "str" THEN [exc |-> "ValueError", v |-> 0]
  ELSE [exc |-> "TypeError", v |-> 0]

\* the loop of lines 317-323: candidates are updated in place one by one, so
\* those before a failing element keep their new scores
RECURSIVE ScoreLoop(_, _, _, _)
ScoreLoop(cfg, recs, scores, i) ==
  IF i > Len(scores) THEN [exc |-> "none", recs |-> recs]
  ELSE LET f == FloatOf(scores[i])
       IN IF f.exc # "none" THEN [exc |-> f.exc, recs |-> recs]
          ELSE ScoreLoop(cfg,
                 [recs EXCEPT ![i].ai_relevance_score = f.v,
                              ![i].combined_score =
                                 CombinedScore(cfg, recs[i].similarity_score, f.v)],
                 scores, i + 1)

\* a scoring step that takes a shorter array as a partial match
ScoresAcceptedPartial(text, recs) == text.json = "array" /\ Len(text.elems) <= Len(recs)

\* isinstance(scores, list) and len(scores) == len(recommendations)
ScoresAccepted(text, recs) == text.json = "array" /\ Len(text.elems) = Len(recs)

\* list.sort(key=combined_score, reverse=True): stable, descending
RECURSIVE InsertDesc(_, _)
InsertDesc(sorted, x) ==
  IF sorted = <<>> THEN <<x>>
  ELSE IF Head(sorted).combined_score >= x.combined_score
    THEN <<Head(sorted)>> \o InsertDesc(Tail(sorted), x)
  ELSE <<x>> \o sorted

RECURSIVE SortFrom(_, _, _)
SortFrom(recs, i, sorted) ==
  IF i > Len(recs) THEN sorted ELSE SortFrom(recs, i + 1, InsertDesc(sorted, recs[i]))

\* a descending sort that leaves equal candidates in reverse order
SortByCombinedReversing(recs) == SortFrom(Reverse(recs), 1, <<>>)

SortByCombined(recs) == SortFrom(recs, 1, <<>>)

\* _ai_score_recommendations: the scoring call, the decoding of its text,
\* the assignment and the final sort.  JSONDecodeError, ValueError and
\* IndexError are caught inside, AIClientError outside; any other exception
\* leaves the method before the sort.
AiScoreRecommendations(cfg, recs, resp) ==
  LET r == ProcessData(cfg.provider, 0, resp)
  IN IF ~r.ok
       THEN IF IsAIClientError(r.exc)
              THEN [ok |-> TRUE, exc |-> "none", recs |-> SortByCombined(recs)]
              ELSE [ok |-> FALSE, exc |-> r.exc, recs |-> recs]
     ELSE IF ~ScoresAccepted(r.res.processed_data, recs)
       THEN [ok |-> TRUE, exc |-> "none", recs |-> SortByCombined(recs)]
     ELSE LET l == ScoreLoop(cfg, recs, r.res.processed_data.elems, 1)
          IN IF l.exc = "TypeError"
               THEN [ok |-> FALSE, exc |-> "TypeError", recs |-> l.recs]
               ELSE [ok |-> TRUE, exc |-> "none", recs |-> SortByCombined(l.recs)]

\* _generate_explanation: one call on the first three candidates; an
\* AIClientError gives None
GenerateExplanation(cfg, recs, resp) ==
  LET r == ProcessData(cfg.provider, 0, resp)
  IN IF r.ok THEN [ok |-> TRUE, exc |-> "none", present |-> TRUE, top |-> FirstK(recs, 3)]
     ELSE IF IsAIClientError(r.exc)
       THEN [ok |-> TRUE, exc |-> "none", present |-> FALSE, top |-> FirstK(recs, 3)]
     ELSE [ok |-> FALSE, exc |-> r.exc, present |-> FALSE, top |-> FirstK(recs, 3)]

\* what the provider answers to the profile and explanation calls
ProfileResps == {HttpOk(ProseText({"b"})), HttpStatus(500), HttpTimeout}

ExplainResps == {HttpOk(ProseText({})), HttpStatus(402), HttpTransport}

\* the arrays of length c over a set of elements
Arrays(c, elems) == {ArrayText(e) : e \in [1..c -> elems]}

Nine(c) == ArrayText([i \in 1..c |-> Elem("num", 9)])

\* what the provider answers to the scoring call of a request with c
\* candidates: failures, an array one short, and arrays of length c of low
\* scores that end with a high score, a string or null
ServeScoreResps(c) ==
  {HttpStatus(429), HttpTimeout, HttpOk(Nine(c - 1))}
    \cup {HttpOk(ArrayText([i \in 1..c |-> IF i = c THEN e ELSE Elem("num", 2)])) :
            e \in {Elem("num", 9), Elem("num", 15), Elem("str", 0), Elem("null", 0)}}

\* the same for a direct call: every array of length c over the elements
ScoreElems ==
  {Elem("num", 2), Elem("num", 9), Elem("num", 15), Elem("numstr", 5),
   Elem("str", 0), Elem("null", 0)}

ScoreResps(c) ==
  {HttpStatus(429), HttpStatus(500), HttpTimeout, HttpBody("nofield"),
   HttpOk(ProseText({})), HttpOk(ObjectText({})), HttpOk(ScalarText),
   HttpOk(Nine(c - 1)), HttpOk(Nine(c + 1))}
    \cup {HttpOk(t) : t \in Arrays(c, ScoreElems)}

\* the three guards of get_recommendations (lines 165-167, 176-178, 187-189)
AiOn(req) == req.ai_processing_enabled /\ config.enabled /\ ai_client # "None"

\* a flag that echoes the request's opt-in
AiProcessingRequested(req) == req.ai_processing_enabled

\* line 200
AiProcessingUsed(req) == req.ai_processing_enabled /\ config.enabled

\* a response that carries every candidate
ResponseUntruncated(req, recs, expl, calls, trace) ==
  Outcome("get_recommendations", "none", recs, AiProcessingUsed(req), expl, calls, trace)

\* lines 196-202
Response(req, recs, expl, calls, trace) ==
  Outcome("get_recommendations", "none", FirstK(recs, req.num_recommendations),
          AiProcessingUsed(req), expl, calls, trace)

\* an engine that keeps something of each request in its cache
CacheAfterRequestStoring(c) == c \cup {"recommendations"}

\* self.cache after a request: get_recommendations and the methods it calls
\* assign no attribute of the engine, the cache included
CacheAfterRequest(c) == c

\* get_recommendations(request)
GetRecommendations ==
  /\ out = Idle
  /\ closed = 0
  /\ \E req \in Requests :
       \E presp \in (IF AiOn(req) THEN ProfileResps ELSE {NoHttp}) :
         LET prof == IF AiOn(req) THEN GenerateUserProfile(config, req, presp)
                     ELSE [ok |-> TRUE, exc |-> "none", profile |-> EmptyText,
                           calls |-> <<>>]
             t0 == Trace(req, prof.profile, <<>>, NoHttp, <<>>)
         IN IF ~prof.ok
              THEN out' = RaisedIn("get_recommendations", prof.exc, prof.calls, t0)
            ELSE IF ContentRaises(req, prof.profile)
              THEN out' = RaisedIn("get_recommendations", "AttributeError", prof.calls, t0)
            ELSE
              \E content \in ContentRecommendations(req, prof.profile) :
                IF ~AiOn(req)
                  THEN out' = Response(req, content, FALSE, prof.calls,
                                       Trace(req, prof.profile, content, NoHttp, content))
                ELSE
                  \E sresp \in ServeScoreResps(Len(content)), eresp \in ExplainResps :
                    LET sc == AiScoreRecommendations(config, content, sresp)
                        ex == GenerateExplanation(config, sc.recs, eresp)
                        c1 == Append(prof.calls, "score")
                        c2 == Append(c1, "explain")
                        t1 == Trace(req, prof.profile, content, sresp, sc.recs)
                    IN IF ~sc.ok
                         THEN out' = RaisedIn("get_recommendations", sc.exc, c1, t1)
                       ELSE IF ~ex.ok
                         THEN out' = [RaisedIn("get_recommendations", ex.exc, c2, t1)
                                        EXCEPT !.explained = ex.top]
                       ELSE out' = [Response(req, sc.recs, ex.present, c2, t1)
                                      EXCEPT !.explained = ex.top]
  /\ cache' = CacheAfterRequest(cache)
  /\ UNCHANGED <<config, ai_client, products_df, tfidf_vectorizer, product_features,
                 artifact, closed, released, clientVars, breakerVars, retryVars,
                 limiterVars>>

\* _ai_score_recommendations called on its own, as tests/test_ai_recommender.py
\* does, on a list of freshly built candidates
AiScoreDirect ==
  /\ out = Idle
  /\ ai_client # "None"
  /\ \E c \in 1..MaxProducts :
       \E rows \in InjSeqs(1..MaxProducts, c), sresp \in ScoreResps(c) :
         LET content == [i \in 1..c |-> Candidate(rows[i])]
             sc == AiScoreRecommendations(config, content, sresp)
         IN out' = Outcome("_ai_score_recommendations", sc.exc, <<>>, FALSE, FALSE,
                           <<"score">>,
                           Trace(NoRequest, EmptyText, content, sresp, sc.recs))
  /\ UNCHANGED <<engine, closed, released, clientVars, breakerVars, retryVars, limiterVars>>

\* a close that releases without looking for a client
CloseUnguarded ==
  /\ out = Idle
  /\ closed < MaxClose
  /\ closed' = closed + 1
  /\ released' = released + 1
  /\ out' = Returned("close", <<"close">>)
  /\ UNCHANGED <<engine, clientVars, breakerVars, retryVars, limiterVars>>

\* close: release the client's connections when a client exists
Close ==
  /\ out = Idle
  /\ closed < MaxClose
  /\ closed' = closed + 1
  /\ released' = IF ai_client # "None" THEN released + 1 ELSE released
  /\ out' = Returned("close", IF ai_client # "None" THEN <<"close">> ELSE <<>>)
  /\ UNCHANGED <<engine, clientVars, breakerVars, retryVars, limiterVars>>

\* the caller takes the outcome of the operation
Deliver ==
  /\ out # Idle
  /\ out' = Idle
  /\ UNCHANGED <<engine, closed, released, clientVars, breakerVars, retryVars, limiterVars>>

\* ---------------------------------------------------------- client actions
\* the data items: 0 is the empty string
DataItems == 0..2

DataLists == UNION {[1..n -> DataItems] : n \in 0..MaxItems}

\* what the HTTP layer does with a request of a client
ClientResps ==
  {HttpOk(ProseText({})), HttpStatus(429), HttpStatus(402), HttpStatus(500),
   HttpStatus(404), HttpTimeout, HttpTransport, HttpBody("nofield"),
   HttpBody("notjson")}

ClientFree == client.constructed /\ call = NoCall /\ batch_run = NoBatch

\* client = create_ai_client(config) for a configuration's provider value
CreateClient ==
  /\ client = NoClient
  /\ \E p \in ProviderValues \cup {Unsupported} : client' = CreateAiClient(p)
  /\ UNCHANGED <<call, batch_run, serviceVars, breakerVars, retryVars, limiterVars>>

\* await client.process_data(data, system_prompt, user_prompt)
ProcessDataCall ==
  /\ ClientFree
  /\ \E data \in DataItems, user_prompt \in {NoPrompt, Prompt("fixed", 0)},
        resp \in ClientResps :
       LET r == ProcessData(client.provider, data, resp)
       IN call' = [op |-> "process_data", data |-> data,
                   content |-> UserContent(data, user_prompt), resp |-> resp,
                   ok |-> r.ok, exc |-> r.exc, res |-> r.res]
  /\ UNCHANGED <<client, batch_run, serviceVars, breakerVars, retryVars, limiterVars>>

\* await client.batch_process(data_list, system_prompt, user_prompt_template):
\* the call starts at the head of its loop
BatchStart ==
  /\ ClientFree
  /\ \E data_list \in DataLists, template \in Templates :
       batch_run' = [NoBatch EXCEPT !.phase = "loop", !.data_list = data_list,
                                    !.template = template, !.i = 1]
  /\ UNCHANGED <<client, call, serviceVars, breakerVars, retryVars, limiterVars>>

\* the head of the loop: return the results after the last item, else build
\* the item's prompt and post its request
BatchIssue ==
  /\ batch_run.phase = "loop"
  /\ LET b == batch_run
         f == FormatTemplate(b.template, b.data_list[b.i])
     IN IF b.i > Len(b.data_list)
          THEN batch_run' = [b EXCEPT !.phase = "returned"]
        ELSE IF f.exc # "none"
          THEN batch_run' = [b EXCEPT !.phase = "raised", !.exc = f.exc]
        ELSE batch_run' =
               [b EXCEPT !.phase = "await", !.inflight = @ + 1,
                         !.log = Append(@, Event("post", b.i,
                                   UserContent(b.data_list[b.i], f.prompt), 0))]
  /\ UNCHANGED <<client, call, serviceVars, breakerVars, retryVars, limiterVars>>

\* the request of the current item ends: process_data returns or raises
BatchRespond ==
  /\ batch_run.phase = "await"
  /\ \E resp \in ClientResps :
       batch_run' = BatchAfterItem(client.provider, batch_run,
                      ProcessData(client.provider, batch_run.data_list[batch_run.i], resp))
  /\ UNCHANGED <<client, call, serviceVars, breakerVars, retryVars, limiterVars>>

\* the delay after the current item has passed
BatchWake ==
  /\ batch_run.phase = "sleep"
  /\ batch_run' = [batch_run EXCEPT
                     !.phase = "loop", !.i = @ + 1,
                     !.log = Append(@, Event("sleep", batch_run.i, NoPrompt,
                                             PacingDelay(client.provider)))]
  /\ UNCHANGED <<client, call, serviceVars, breakerVars, retryVars, limiterVars>>

\* the caller takes the outcome of a client operation; a client that could
\* not be made is given up
ClientDeliver ==
  /\ \/ call # NoCall
     \/ batch_run.phase \in {"returned", "raised"}
     \/ client.exc # "none"
  /\ call' = NoCall
  /\ batch_run' = NoBatch
  /\ client' = IF client.exc # "none" THEN NoClient ELSE client
  /\ UNCHANGED <<serviceVars, breakerVars, retryVars, limiterVars>>

NextClient ==
  CreateClient \/ ProcessDataCall \/ BatchStart \/ BatchIssue \/ BatchRespond
    \/ BatchWake \/ ClientDeliver

SpecClient == Init /\ [][NextClient]_vars

\* --------------------------------------------------------- breaker actions
\* a service with a breaker of its own threshold and recovery timeout in
\* front of a function that NumCallers tasks call
InitBreaker ==
  /\ config = DisabledConfig
  /\ ai_client = "None"
  /\ products_df = NoTable
  /\ tfidf_vectorizer = FALSE
  /\ product_features = <<>>
  /\ cache = {}
  /\ artifact = NoArtifact
  /\ closed = 0
  /\ released = 0
  /\ out = Idle
  /\ NewClient
  /\ NewRetry(DefaultRetryHandler)
  /\ NewLimiter(DefaultSecurity)
  /\ \E ft \in 1..MaxThreshold, rt \in 1..MaxRecovery :
       NewBreaker(CircuitBreaker(ft, rt), NumCallers)

\* time passes
Tick ==
  /\ now < MaxClock
  /\ now' = now + 1
  /\ UNCHANGED <<breaker, callers, hist, serviceVars, clientVars, retryVars, limiterVars>>

\* a consumer asks circuit_breaker.is_available()
IsAvailableCheck ==
  /\ LET r == IsAvailable(breaker, now)
     IN /\ breaker' = r.breaker
        /\ hist' = Checked(breaker, hist, now, r.breaker, r.answer)
  /\ UNCHANGED <<now, callers, serviceVars, clientVars, retryVars, limiterVars>>

\* async_wrapper, lines 211-219: the availability check; the call is
\* rejected with ServiceUnavailableError or the wrapped function starts
WrapperEnter(c) ==
  /\ callers[c] = "idle"
  /\ LET r == IsAvailable(breaker, now)
     IN /\ breaker' = r.breaker
        /\ hist' = Checked(breaker, hist, now, r.breaker, r.answer)
        /\ callers' = [callers EXCEPT ![c] = IF r.answer THEN "running" ELSE "idle"]
  /\ UNCHANGED <<now, serviceVars, clientVars, retryVars, limiterVars>>

\* async_wrapper, lines 219-221: the wrapped function returns
WrapperReturn(c) ==
  /\ callers[c] = "running"
  /\ breaker' = RecordSuccess(breaker)
  /\ hist' = Succeeded(breaker, hist, now)
  /\ callers' = [callers EXCEPT ![c] = "idle"]
  /\ UNCHANGED <<now, serviceVars, clientVars, retryVars, limiterVars>>

\* async_wrapper, lines 222-224: the wrapped function raises
WrapperRaise(c) ==
  /\ callers[c] = "running"
  /\ breaker' = RecordFailure(breaker, now)
  /\ hist' = Failed(breaker, hist, now)
  /\ callers' = [callers EXCEPT ![c] = "idle"]
  /\ UNCHANGED <<now, serviceVars, clientVars, retryVars, limiterVars>>

NextBreaker ==
  \/ Tick
  \/ IsAvailableCheck
  \/ \E c \in 1..NumCallers : WrapperEnter(c)
  \/ \E c \in 1..NumCallers : WrapperReturn(c)
  \/ \E c \in 1..NumCallers : WrapperRaise(c)

SpecBreaker == InitBreaker /\ [][NextBreaker]_vars

\* ----------------------------------------------------------- retry actions
\* the exceptions the operation raises
OperationErrors == {"AIRateLimitError", "ConnectError"}

\* a service with a retry handler of its own
InitRetry ==
  /\ config = DisabledConfig
  /\ ai_client = "None"
  /\ products_df = NoTable
  /\ tfidf_vectorizer = FALSE
  /\ product_features = <<>>
  /\ cache = {}
  /\ artifact = NoArtifact
  /\ closed = 0
  /\ released = 0
  /\ out = Idle
  /\ NewClient
  /\ NewBreaker(CircuitBreaker(5, 60), 0)
  /\ NewLimiter(DefaultSecurity)
  /\ \E m \in 0..MaxRetries, cap \in {30, 600} : NewRetry(RetryHandler(m, 10, cap, 2))

\* await handler.execute_with_retry(func): the loop starts with attempt 0
RetryStart ==
  /\ retry.phase = "idle"
  /\ retry' = [NoRetry EXCEPT !.phase = "call"]
  /\ UNCHANGED <<handler, serviceVars, clientVars, breakerVars, limiterVars>>

\* the operation is invoked and returns or raises
RetryInvoke ==
  /\ retry.phase = "call"
  /\ \E outcome \in {"ok"} \cup OperationErrors,
        jitter \in Jitters(BackoffDelay(handler, retry.attempt)) :
       retry' = AfterInvocation(handler, retry, outcome, jitter)
  /\ UNCHANGED <<handler, serviceVars, clientVars, breakerVars, limiterVars>>

\* the backoff sleep ends
RetryWake ==
  /\ retry.phase = "sleep"
  /\ retry' = AfterSleep(handler, retry)
  /\ UNCHANGED <<handler, serviceVars, clientVars, breakerVars, limiterVars>>

\* the caller takes the result or the exception
RetryDeliver ==
  /\ retry.phase \in {"returned", "raised"}
  /\ retry' = NoRetry
  /\ UNCHANGED <<handler, serviceVars, clientVars, breakerVars, limiterVars>>

NextRetry == RetryStart \/ RetryInvoke \/ RetryWake \/ RetryDeliver

SpecRetry == InitRetry /\ [][NextRetry]_vars

\* ---------------------------------------------------- rate limiter actions
\* the engine and the other objects of a service whose limiter is exercised
IdleService ==
  /\ config = DisabledConfig
  /\ ai_client = "None"
  /\ products_df = NoTable
  /\ tfidf_vectorizer = FALSE
  /\ product_features = <<>>
  /\ cache = {}
  /\ artifact = NoArtifact
  /\ closed = 0
  /\ released = 0
  /\ out = Idle
  /\ NewClient
  /\ NewBreaker(CircuitBreaker(5, 60), 0)
  /\ NewRetry(DefaultRetryHandler)

\* the identifiers the calls made on the limiter itself are about
CallerIdentifiers == {Identifier("a", "minute"), Identifier("a", "hour")}

RECURSIVE Held(_, _)
\* the number of timestamps the limiter l holds for the identifiers ids
Held(l, ids) ==
  IF ids = {} THEN 0
  ELSE LET id == CHOOSE x \in ids : TRUE
       IN Len(l.requests[id]) + Held(l, ids \ {id})

InitLimiter == IdleService /\ NewLimiter(DefaultSecurity)

\* rate_limiter.is_rate_limited(id, max_requests, window_seconds)
IsRateLimitedCall ==
  /\ \E id \in CallerIdentifiers, max_requests \in 1..MaxLimit, window_seconds \in 1..2 :
       LET r == IsRateLimited(limiter, id, max_requests, window_seconds, now)
       IN /\ limiter' = r.limiter
          /\ verdict' = [op |-> "check", id |-> id, max_requests |-> max_requests,
                         window_seconds |-> window_seconds, at |-> now,
                         limited |-> r.limited]
  /\ UNCHANGED <<security, serviceVars, clientVars, breakerVars, retryVars>>

\* rate_limiter.record_request(id)
RecordRequestCall ==
  /\ \E id \in CallerIdentifiers :
       /\ Held(limiter, Identifiers) < MaxRecorded
       /\ limiter' = RecordRequest(limiter, id, now)
       /\ verdict' = [NoVerdict EXCEPT !.op = "record", !.id = id, !.at = now]
  /\ UNCHANGED <<security, serviceVars, clientVars, breakerVars, retryVars>>

NextLimiter == Tick \/ IsRateLimitedCall \/ RecordRequestCall

SpecLimiter == InitLimiter /\ [][NextLimiter]_vars

\* a service whose limits are small
InitGate ==
  /\ IdleService
  /\ \E enabled \in BOOLEAN, per_minute \in 0..MaxLimit, per_hour \in 0..MaxLimit + 1 :
       NewLimiter(SecurityConfig(enabled, per_minute, per_hour))

\* a request of address ip passes check_rate_limits; no await in it, so it
\* runs as one step of the event loop
CheckRateLimitsCall ==
  /\ \E ip \in Ips :
       LET r == CheckRateLimits(security, limiter, ip, now)
       IN /\ limiter' = r.limiter
          /\ verdict' = [NoVerdict EXCEPT !.op = "gate", !.id = <<ip>>, !.at = now,
                                         !.limited = r.rejected]
  /\ UNCHANGED <<security, serviceVars, clientVars, breakerVars, retryVars>>

NextGate == Tick \/ CheckRateLimitsCall

SpecGate == InitGate /\ [][NextGate]_vars

NextInit == InitializeAny \/ InitializeMissing \/ Close \/ Deliver

SpecInit == InitAny /\ [][NextInit]_vars

\* the process ends and a new one constructs an engine of the same
\* configuration; ml_models/ai_enhanced_model.pkl stays on disk
Restart ==
  /\ out = Idle
  /\ ai_client' = IF config.enabled THEN "client" ELSE "None"
  /\ products_df' = NoTable
  /\ tfidf_vectorizer' = FALSE
  /\ product_features' = <<>>
  /\ cache' = {}
  /\ closed' = 0
  /\ UNCHANGED <<config, artifact, released, out, clientVars, breakerVars, retryVars,
                 limiterVars>>

NextRestart == Initialize \/ InitializeMissing \/ Restart \/ Deliver

SpecRestart == Init /\ [][NextRestart]_vars

Next == Initialize \/ InitializeMissing \/ GetRecommendations \/ Close \/ Deliver

Spec == Init /\ [][Next]_vars

NextScore == AiScoreDirect \/ Deliver

SpecScore == Init /\ [][NextScore]_vars

\* ------------------------------------------------------------------ claims
IsResponse == out.op = "get_recommendations" /\ ~out.raised

IsScored == out.op = "_ai_score_recommendations"

\* the scoring call was answered with a text
ScoringAnswered(t) == t.sresp.kind = "http" /\ t.sresp.status = 200 /\ t.sresp.body = "ok"

\* position of the candidate of row id in a list
Pos(recs, id) == CHOOSE i \in 1..Len(recs) : recs[i].id = id

Ids(recs) == {recs[i].id : i \in 1..Len(recs)}

\* every candidate carries the scores it had when retrieved
ScoresUnchanged(t) ==
  /\ Ids(t.scored) = Ids(t.content)
  /\ \A i \in 1..Len(t.scored) :
       LET before == t.content[Pos(t.content, t.scored[i].id)]
       IN /\ t.scored[i].ai_relevance_score = before.ai_relevance_score
          /\ t.scored[i].combined_score = before.combined_score

\* C1: on an initialized engine with AI enabled, get_recommendations returns
\* a response and never raises, however the provider fails.
C1_NeverRaisesOnProviderFailure ==
  (out.op = "get_recommendations" /\ config.enabled /\ products_df.loaded
     /\ tfidf_vectorizer)
    => ~out.raised

\* the failures that batch_process can raise
BatchFailures ==
  AIClientErrors \cup {"TimeoutException", "ConnectError", "JSONDecodeError", "KeyError"}

\* C2: with AI enabled, no failure raised by batch_process leaves initialize:
\* the sub-batch gets placeholders and training proceeds.
C2_InitializeSurvivesBatchFailure ==
  (out.op = "initialize" /\ config.enabled) => out.exc \notin BatchFailures

\* the scoring text decodes to an array of another length than the list
LengthMismatch(t) ==
  /\ ScoringAnswered(t)
  /\ t.sresp.text.json = "array"
  /\ Len(t.sresp.text.elems) # Len(t.content)

\* C3: a scoring response that is a JSON array of another length than the
\* candidate list leaves every relevance and combined score and the order of
\* the candidates unchanged, and raises nothing.
C3_LengthMismatchLeavesScores ==
  (IsScored /\ LengthMismatch(out.trace))
    => (~out.raised /\ out.trace.scored = out.trace.content)

C3_Witness ==
  /\ IsScored
  /\ LengthMismatch(out.trace)
  /\ Len(out.trace.content) >= 2
  /\ Len(out.trace.sresp.text.elems) >= 1
  /\ out.trace.content[1].id > out.trace.content[2].id

\* decoding the scoring text fails: it is no JSON, no array, an array of
\* another length, or holds an element that float() does not convert
DecodeFails(t) ==
  /\ ScoringAnswered(t)
  /\ \/ t.sresp.text.json # "array"
     \/ Len(t.sresp.text.elems) # Len(t.content)
     \/ \E i \in 1..Len(t.sresp.text.elems) :
          t.sresp.text.elems[i].t \notin {"num", "numstr"}

\* C4: score assignment is all-or-nothing: when decoding the scoring text
\* fails, no candidate's relevance or combined score has changed and no error
\* reaches the caller.
C4_ScoringAllOrNothing ==
  (IsScored /\ DecodeFails(out.trace)) => (~out.raised /\ ScoresUnchanged(out.trace))

\* two candidates of similarity 0.5 scored with [0.9, 0.2] under the weights
\* 0.6 and 0.4
ExampleScored ==
  ScoreLoop(TestConfig,
            <<[Candidate(1) EXCEPT !.similarity_score = 5],
              [Candidate(2) EXCEPT !.similarity_score = 5]>>,
            <<Elem("num", 9), Elem("num", 2)>>, 1).recs

RetrievedBySimilarity ==
  /\ out.op = "get_recommendations"
  /\ out.trace.content # <<>>
  /\ HasQuery(out.trace.req, out.trace.profile)

TraceSims == Similarities(QueryTerms(out.trace.req, out.trace.profile), product_features)

\* the candidates are the products of highest similarity, in descending order
TopBySimilarity(c, sims, n) ==
  /\ Len(c) = Min(3 * n, Len(sims))
  /\ \A i, j \in 1..Len(c) : i < j => c[i].id # c[j].id /\ sims[c[i].id] >= sims[c[j].id]
  /\ \A k \in 1..Len(sims) :
       k \notin Ids(c) => \A i \in 1..Len(c) : sims[k] <= sims[c[i].id]

\* C7 as stated: with a query, the candidates are the min(3 * requested,
\* product count) products of highest similarity in descending order, and
\* products of equal similarity appear in original table order.
C7_TopSimilarInTableOrder ==
  RetrievedBySimilarity =>
    LET c == out.trace.content
    IN /\ TopBySimilarity(c, TraceSims, out.trace.req.num_recommendations)
       /\ \A i, j \in 1..Len(c) :
            (i < j /\ TraceSims[c[i].id] = TraceSims[c[j].id]) => c[i].id < c[j].id

\* C7 amended: with a query, the candidates are min(3 * requested, product
\* count) distinct products of highest similarity in descending order of
\* similarity; nothing is said of the order of products of equal similarity.
C7_TopSimilarDescending ==
  RetrievedBySimilarity =>
    TopBySimilarity(out.trace.content, TraceSims, out.trace.req.num_recommendations)

C7_Witness ==
  /\ RetrievedBySimilarity
  /\ Len(out.trace.content) < Len(product_features)
  /\ TraceSims[out.trace.content[1].id] > TraceSims[out.trace.content[3].id]
  /\ TraceSims[out.trace.content[1].id] = TraceSims[out.trace.content[2].id]
  /\ out.trace.content[1].id > out.trace.content[2].id

\* C8: every response holds exactly min(requested, product count)
\* candidates and no product twice.
C8_ResponseSize ==
  IsResponse =>
    /\ Len(out.recommendations)
         = Min(out.trace.req.num_recommendations, Len(products_df.rows))
    /\ \A i, j \in 1..Len(out.recommendations) :
         i # j => out.recommendations[i].id # out.recommendations[j].id

C8_Witness ==
  /\ IsResponse
  /\ HasQuery(out.trace.req, out.trace.profile)
  /\ out.trace.req.num_recommendations = 2
  /\ Len(products_df.rows) > 2
  /\ Len(out.trace.content) > 2
  /\ Len(out.recommendations) = 2

\* C9: with AI processing disabled in the configuration, every response has
\* ai_processing_used false and no explanation, whatever the request's flag,
\* and no operation calls the AI client.
C9_DisabledMeansNoAi ==
  ~config.enabled =>
    /\ out.calls = <<>>
    /\ IsResponse => (~out.ai_processing_used /\ ~out.has_explanation)

C9_Witness ==
  /\ ~config.enabled
  /\ IsResponse
  /\ out.trace.req.ai_processing_enabled
  /\ Len(out.recommendations) >= 1

\* C10 as stated: over any number of calls of close the client's release is
\* invoked exactly once when a client exists and never when none exists.
C10_ReleasedExactlyOnce ==
  /\ (ai_client # "None" /\ closed >= 1) => released = 1
  /\ ai_client = "None" => released = 0

\* C10 amended: every call of close invokes the client's release once when a
\* client exists, so k calls invoke it k times; it is never invoked when no
\* client exists, and no call of close raises.
C10_ReleasedOncePerClose ==
  /\ ai_client # "None" => released = closed
  /\ ai_client = "None" => released = 0
  /\ out.op = "close" => ~out.raised

C10_Witness == ai_client # "None" /\ closed = 2 /\ released = 2 /\ out.op = "close"

\* ------------------------------------------------------- claims: the client
BatchEnded == batch_run.phase \in {"returned", "raised"}

\* the events of a kind in the log of the batch call
EventsOf(ev) == {p \in 1..Len(batch_run.log) : batch_run.log[p].ev = ev}

\* the content the request of item i carries, given the template
ContentOf(template, d) ==
  IF template = "placeholder" THEN Prompt("templated", d)
  ELSE IF template = "fixed" THEN Prompt("fixed", 0)
  ELSE IF d = 0 THEN NoPrompt ELSE Prompt("raw", d)

\* C11: when every per-item call of a batch_process call on N inputs
\* succeeds (the template being one str.format accepts), the call returns
\* exactly N results, result i made from input i: its original_data is the
\* raw input i, also when the template replaces the user content, and the
\* i-th request carried input i; for every client class.
C11_BatchResultsAligned ==
  (BatchEnded /\ EventsOf("fail") = {} /\ batch_run.template # "malformed") =>
    LET b == batch_run
    IN /\ b.phase = "returned"
       /\ Len(b.results) = Len(b.data_list)
       /\ \A i \in 1..Len(b.data_list) :
            /\ b.results[i].original_data = b.data_list[i]
            /\ b.results[i].confidence_score = ConfidenceOf(client.provider)
       /\ Cardinality(EventsOf("post")) = Len(b.data_list)
       /\ \A p \in EventsOf("post") :
            b.log[p].content = ContentOf(b.template, b.data_list[b.log[p].item])

C11_Witness ==
  /\ batch_run.phase = "returned"
  /\ client.kind = "CustomAPIClient"
  /\ batch_run.template = "placeholder"
  /\ Len(batch_run.results) = 3
  /\ batch_run.data_list = <<2, 1, 2>>

\* C12: within one batch_process call at most one request is in flight; the
\* request of item 1 comes first, and the request of item i+1 is posted only
\* after the call of item i has returned and, for OpenAIClient and
\* AnthropicClient, after the delay that follows item i; OllamaClient and
\* CustomAPIClient make no delay.
C12_OneRequestAtATime ==
  LET log == batch_run.log
      paced == client.provider \in {"openai", "anthropic"}
  IN /\ batch_run.inflight \in {0, 1}
     /\ batch_run.inflight = 1 <=> batch_run.phase = "await"
     /\ ~paced => EventsOf("sleep") = {}
     /\ \A p \in EventsOf("sleep") : log[p].delay > 0
     /\ \A p \in EventsOf("post") :
          IF log[p].item = 1 THEN p = 1
          ELSE LET done == IF paced THEN p - 2 ELSE p - 1
               IN /\ done >= 1
                  /\ log[done].ev = "done"
                  /\ log[done].item = log[p].item - 1
                  /\ paced => (log[p - 1].ev = "sleep" /\ log[p - 1].item = log[p].item - 1)

C12_Witness ==
  /\ batch_run.phase = "await"
  /\ batch_run.i = 3
  /\ client.kind = "AnthropicClient"
  /\ batch_run.log[Len(batch_run.log) - 1].delay = 2

\* C13: a failure on item k of a batch_process call never gives a list
\* shorter than the input or out of step with it: the call raises, returns
\* no list and posts no request for an item after k, or it returns a list
\* of the input's length; in all four client classes.
C13_BatchFailsWhole ==
  LET b == batch_run
  IN /\ b.phase = "returned" =>
          /\ Len(b.results) = Len(b.data_list)
          /\ \A i \in 1..Len(b.results) : b.results[i].original_data = b.data_list[i]
     /\ \A p \in EventsOf("fail") :
          /\ p = Len(b.log)
          /\ b.phase = "raised"
          /\ b.exc # "none"
          /\ \A q \in EventsOf("post") : b.log[q].item <= b.log[p].item

C13_Witness ==
  /\ batch_run.phase = "raised"
  /\ client.kind = "OllamaClient"
  /\ Len(batch_run.data_list) = 3
  /\ Len(batch_run.log) >= 1
  /\ batch_run.log[Len(batch_run.log)].ev = "fail"
  /\ batch_run.log[Len(batch_run.log)].item = 2
  /\ batch_run.exc = "AIClientError"

\* the first and last product of the sub-batch product k is in
BatchLo(k) == ((k - 1) \div config.batch_size) * config.batch_size + 1

BatchHi(k) == Min(BatchLo(k) + config.batch_size - 1, Len(products_df.rows))

\* the provider answered the request with a text
Succeeds(resp) == resp.kind = "http" /\ resp.status = 200 /\ resp.body = "ok"

\* the requests of the sub-batch of product k that did not succeed; only the
\* first of them was sent
Failing(k) == {j \in BatchLo(k)..BatchHi(k) : ~Succeeds(out.enhance[j])}

FirstFailing(k) == CHOOSE j \in Failing(k) : \A h \in Failing(k) : j <= h

\* every sub-batch that failed, failed with an answer of an error status,
\* which the client raises as an AIClientError
OnlyStatusFailures ==
  \A k \in 1..Len(out.enhance) :
    Failing(k) # {} => (out.enhance[FirstFailing(k)].kind = "http"
                          /\ out.enhance[FirstFailing(k)].status # 200)

\* C14: after _ai_enhance_products, for any number of products, any
\* batch_size and any set of sub-batches failing with an AIClientError, the
\* ai_analysis column has one entry per product in product order: the
\* entries of a failed sub-batch are placeholders (empty text, confidence 0,
\* tokens 0), the entries of every other sub-batch are its real results.
C14_OneEntryPerProduct ==
  (out.op = "initialize" /\ out.enhance # <<>> /\ OnlyStatusFailures) =>
    LET a == products_df.ai_analysis
    IN /\ Len(a) = Len(products_df.rows)
       /\ \A k \in 1..Len(a) :
            IF Failing(k) # {}
              THEN /\ a[k].processed_data = EmptyText
                   /\ a[k].confidence_score = 0
                   /\ a[k].tokens_used = 0
              ELSE /\ a[k].original_data = k
                   /\ a[k].processed_data = out.enhance[k].text
                   /\ a[k].tokens_used = out.enhance[k].tokens
                   /\ a[k].confidence_score = ConfidenceOf(config.provider)

C14_Witness ==
  /\ out.op = "initialize"
  /\ ~out.raised
  /\ config.batch_size = 2
  /\ Len(products_df.rows) = 3
  /\ Len(out.enhance) = 3
  /\ Succeeds(out.enhance[1])
  /\ out.enhance[2].status = 429
  /\ Succeeds(out.enhance[3])
  /\ products_df.ai_analysis[1] = Placeholder
  /\ products_df.ai_analysis[3].original_data = 3

\* create_ai_client was called
Created == client.provider # "none"

\* the client class of each provider value
ClassOf(provider) ==
  CASE provider = "openai" -> "OpenAIClient"
    [] provider = "anthropic" -> "AnthropicClient"
    [] provider = "ollama" -> "OllamaClient"
    [] provider = "custom" -> "CustomAPIClient"
    [] provider = "cohere" -> "CohereClient"
    [] provider = "huggingface" -> "HuggingFaceClient"
    [] OTHER -> "None"

\* C15: for every provider value a valid AIModelConfig holds,
\* create_ai_client returns a client of the class of that provider; for an
\* unrecognized provider it raises ValueError and constructs no client.
C15_FactoryCoversProviders ==
  Created =>
    IF client.provider \in ProviderValues
      THEN client.constructed /\ client.exc = "none" /\ client.kind = ClassOf(client.provider)
      ELSE ~client.constructed /\ client.exc = "ValueError"

\* a process_data call answered with an HTTP status
Answered(status) ==
  call.op = "process_data" /\ call.resp.kind = "http" /\ call.resp.status = status

\* C16: process_data of OpenAIClient and AnthropicClient raises
\* AIRateLimitError whenever the provider answers with status 429, and
\* returns no result.
C16_RateLimitOn429 ==
  (Answered(429) /\ client.kind \in {"OpenAIClient", "AnthropicClient"}) =>
    (~call.ok /\ call.exc = "AIRateLimitError" /\ call.res = NoResult)

C16_Witness ==
  Answered(429) /\ client.kind = "AnthropicClient" /\ call.exc = "AIRateLimitError"

\* C17: process_data of OpenAIClient, AnthropicClient and CustomAPIClient
\* raises AIQuotaExceededError whenever the provider answers with status 402.
C17_QuotaOn402 ==
  (Answered(402) /\ client.kind \in {"OpenAIClient", "AnthropicClient", "CustomAPIClient"}) =>
    (~call.ok /\ call.exc = "AIQuotaExceededError")

\* C18: a failed process_data call raises exactly one of AIRateLimitError,
\* AIQuotaExceededError, AIClientError (any other status that is not 2xx,
\* any transport failure that is no timeout) and the timeout exception;
\* nothing else leaves the client.
C18_ClosedFailureSet ==
  (call.op = "process_data" /\ ~call.ok) =>
    /\ call.exc \in {"AIRateLimitError", "AIQuotaExceededError", "AIClientError",
                      "TimeoutException"}
    /\ call.resp.kind = "timeout" <=> call.exc = "TimeoutException"
    /\ call.resp.kind = "transport" => call.exc = "AIClientError"

\* ------------------------------------------------------ claims: the breaker
\* the recovery timeout after the last recorded failure has not passed
WithinRecovery ==
  hist.failed_at # NoTime /\ now - hist.failed_at <= breaker.recovery_timeout

\* C19: once failure_threshold failures have been recorded with no success
\* between them, the breaker is OPEN and every is_available check answers
\* False until more than recovery_timeout seconds have passed since the last
\* recorded failure.
C19_OpenUntilRecoveryTimeout ==
  (hist.tripped /\ WithinRecovery) => (breaker.state = "OPEN" /\ hist.checked # "yes")

\* C20: after the recovery timeout the breaker admits exactly one trial
\* call: between its turn to HALF_OPEN and the recording of an outcome every
\* further is_available check and every further call through the wrapper is
\* rejected, also when several callers check at once.
C20_OneTrialCall == hist.admitted <= 1

\* C21: in HALF_OPEN, recording a success moves the breaker to CLOSED with
\* failure_count 0 and recording a failure moves it to OPEN, for every
\* failure_count the breaker can have there and every threshold from 1 on.
C21_HalfOpenOutcome ==
  /\ (hist.from = "HALF_OPEN" /\ hist.last = "success")
       => (breaker.state = "CLOSED" /\ breaker.failure_count = 0)
  /\ (hist.from = "HALF_OPEN" /\ hist.last = "failure") => breaker.state = "OPEN"
  /\ breaker.state = "HALF_OPEN" => breaker.failure_count >= breaker.failure_threshold

C21_Witness ==
  /\ hist.from = "HALF_OPEN"
  /\ hist.last = "failure"
  /\ breaker.state = "OPEN"
  /\ breaker.failure_threshold = 2
  /\ breaker.failure_count = 3

\* a caller's wrapped call ends in this step and its outcome is recorded
OutcomeRecorded ==
  \E c \in DOMAIN callers : callers[c] = "running" /\ callers'[c] = "idle"

\* C29: while the breaker is OPEN and its recovery timeout has not passed,
\* no outcome recorded for a call that was admitted before the breaker
\* opened moves it out of OPEN.
C29_LateOutcomeKeepsOpen ==
  [][(/\ breaker.state = "OPEN"
      /\ now - breaker.last_failure_time <= breaker.recovery_timeout
      /\ OutcomeRecorded)
       => breaker'.state = "OPEN"]_vars

\* ------------------------------------------------ claims: the retry handler
\* the invocations of the operation that failed
FailedInvocations == {i \in 1..Len(retry.outcomes) : retry.outcomes[i] # "ok"}

\* C22: execute_with_retry ends after at most max_retries + 1 invocations of
\* the operation: it returns the result of the first successful invocation
\* and invokes no more, and when every invocation fails it raises the
\* exception of the last one after exactly max_retries backoff sleeps, none
\* after the last failure.
C22_RetryBounded ==
  LET n == Len(retry.outcomes)
  IN /\ n <= handler.max_retries + 1
     /\ Len(retry.sleeps) <= handler.max_retries
     /\ \A i \in 1..n : (i < n => retry.outcomes[i] # "ok")
     /\ retry.phase = "returned" <=> (n >= 1 /\ retry.outcomes[n] = "ok")
     /\ retry.phase = "returned" => (retry.result = n /\ Len(retry.sleeps) = n - 1)
     /\ retry.phase = "raised" =>
          /\ n = handler.max_retries + 1
          /\ FailedInvocations = 1..n
          /\ retry.exc = retry.outcomes[n]
          /\ Len(retry.sleeps) = handler.max_retries
     /\ retry.phase = "sleep" => n <= handler.max_retries

C22_Witness ==
  /\ retry.phase = "raised"
  /\ handler.max_retries = 2
  /\ retry.outcomes = <<"ConnectError", "ConnectError", "AIRateLimitError">>
  /\ retry.exc = "AIRateLimitError"
  /\ Len(retry.sleeps) = 2

\* ------------------------------------------------- claims: the rate limiter
\* the recorded requests of id inside the window that ends at t
WindowCount(l, id, window_seconds, t) ==
  Cardinality({i \in DOMAIN l.requests[id] : l.requests[id][i] > t - window_seconds})

\* id is inside a cool-down block at t
InBlock(l, id, t) == l.blocked_until[id] # NoTime /\ t < l.blocked_until[id]

\* the step is a call of is_rate_limited
CheckStep == now' = now /\ verdict'.op = "check"

\* C23: is_rate_limited reports an identifier limited exactly when it is
\* inside a cool-down block or its count of recorded requests inside the
\* window is at least max_requests; outside a block, a count above 1.5 times
\* max_requests starts a block of 2 * window_seconds (and nothing else does);
\* inside a block every check reports limited whatever the window holds and
\* leaves the block as it is, and a check at or after the end of the block
\* drops it.
C23_LimitedIffBlockedOrFull ==
  [][CheckStep =>
       LET id == verdict'.id
           max_requests == verdict'.max_requests
           window_seconds == verdict'.window_seconds
           count == WindowCount(limiter, id, window_seconds, now)
           inside == InBlock(limiter, id, now)
       IN /\ verdict'.limited <=> (inside \/ count >= max_requests)
          /\ inside => limiter'.blocked_until[id] = limiter.blocked_until[id]
          /\ ~inside => limiter'.blocked_until[id] =
                          IF 2 * count > 3 * max_requests
                            THEN now + 2 * window_seconds ELSE NoTime
          /\ \A other \in Identifiers \ {id} :
               /\ limiter'.blocked_until[other] = limiter.blocked_until[other]
               /\ limiter'.requests[other] = limiter.requests[other]]_vars

\* a check inside a block that an earlier check started, with nothing left
\* inside the window, reports limited
C23_Witness ==
  /\ verdict.op = "check" /\ verdict.at = now /\ verdict.limited
  /\ InBlock(limiter, verdict.id, now)
  /\ limiter.blocked_until[verdict.id] < now + 2 * verdict.window_seconds
  /\ WindowCount(limiter, verdict.id, verdict.window_seconds, now) = 0
  /\ verdict.max_requests = 2

\* the recorded requests of every address are within both limits and no
\* identifier is in a cool-down block
WithinLimits ==
  \A ip \in Ips :
    /\ WindowCount(limiter, Identifier(ip, "minute"), MinuteWindow, now)
         <= security.max_requests_per_minute
    /\ WindowCount(limiter, Identifier(ip, "hour"), HourWindow, now)
         <= security.max_requests_per_hour
    /\ limiter.blocked_until[Identifier(ip, "minute")] = NoTime
    /\ limiter.blocked_until[Identifier(ip, "hour")] = NoTime

\* the step is a call of check_rate_limits that rejects the request
RejectStep == now' = now /\ verdict'.op = "gate" /\ verdict'.limited

\* C30: under any sequence of check_rate_limits calls a rejected request
\* records nothing for either window, the recorded requests of an identifier
\* inside its window never exceed the window's limit, and no identifier is
\* ever put in the cool-down block.
C30_GateNeverBlocks ==
  /\ WithinLimits
  /\ [][/\ WithinLimits'
        /\ RejectStep =>
             \A id \in Identifiers :
               Len(limiter'.requests[id]) <= Len(limiter.requests[id])]_vars

\* a request rejected by a full minute window while the hour window has room
C30_Witness ==
  /\ verdict.op = "gate" /\ verdict.at = now /\ verdict.limited
  /\ security.max_requests_per_minute = 2
  /\ \E ip \in Ips :
       /\ verdict.id = <<ip>>
       /\ WindowCount(limiter, Identifier(ip, "minute"), MinuteWindow, now) = 2
       /\ WindowCount(limiter, Identifier(ip, "hour"), HourWindow, now)
            < security.max_requests_per_hour

\* ------------------------------------------- claims: serving and artifacts
\* C24: get_recommendations on an engine whose initialize has not completed
\* (no product table or no fitted vectorizer) raises and returns no
\* response, for every request.
C24_UninitializedRaises ==
  (out.op = "get_recommendations" /\ (~products_df.loaded \/ ~tfidf_vectorizer))
    => out.raised

\* the scores of candidate r are within [0, 1] (tenths, and hundredths for
\* the combined score)
InUnitRange(r) ==
  /\ r.similarity_score \in 0..10
  /\ r.ai_relevance_score \in 0..10
  /\ r.combined_score \in 0..100

\* C25: every candidate of every response has its three scores within
\* [0, 1], whatever the scoring response holds.
C25_ScoresInUnitRange ==
  IsResponse =>
    \A i \in DOMAIN out.recommendations : InUnitRange(out.recommendations[i])

\* the step is a get_recommendations call
ServeStep == out.op = "none" /\ out'.op = "get_recommendations"

InitializeOverArtifact == out.op = "none" /\ out'.op = "initialize" /\ artifact.present

\* C27: an engine started when the saved artifact is already present loads
\* it: initialize succeeds without fitting the vectorizer, and the feature
\* matrix it serves from is the one of the artifact.
C27_LoadsSavedArtifact ==
  [][InitializeOverArtifact =>
       /\ ~out'.raised
       /\ ~out'.fitted
       /\ tfidf_vectorizer'
       /\ product_features' = artifact.features]_vars

\* the AI client calls of a request that opts in on an AI-enabled engine,
\* when nothing cuts the request short
ExpectedCalls(req) ==
  (IF Truthy(req.user_preferences) \/ Truthy(req.context) THEN <<"profile">> ELSE <<>>)
    \o <<"score", "explain">>

\* s is an initial part of t
IsPrefix(s, t) == Len(s) <= Len(t) /\ s = SubSeq(t, 1, Len(s))

\* C28: the AI client calls of one get_recommendations call are, in order,
\* at most one profile call (only when preferences or context are present),
\* then one scoring call, then one explanation call built from the first
\* min(3, candidate count) candidates of the sorted list: all of them when
\* a response is returned, an initial part of them when the call raises;
\* a request that opts out of AI makes no AI client call.
C28_AiCallSequence ==
  out.op = "get_recommendations" =>
    LET req == out.trace.req
    IN /\ ~AiOn(req) => (out.calls = <<>> /\ out.explained = <<>>)
       /\ AiOn(req) => IsPrefix(out.calls, ExpectedCalls(req))
       /\ (AiOn(req) /\ ~out.raised) => out.calls = ExpectedCalls(req)
       /\ (out.calls # <<>> /\ out.calls[Len(out.calls)] = "explain") =>
            /\ out.explained = FirstK(out.trace.scored, 3)
            /\ Len(out.explained) = Min(3, Len(out.trace.content))
       /\ (out.calls = <<>> \/ out.calls[Len(out.calls)] # "explain") =>
            out.explained = <<>>

\* an opted-in request without preferences or context, answered from four
\* candidates: no profile call, and an explanation of the first three
C28_Witness ==
  /\ IsResponse
  /\ out.calls = <<"score", "explain">>
  /\ Len(out.trace.content) = 4
  /\ Len(out.explained) = 3

====
